---- MODULE Spec2Model ----
(***************************************************************************)
(* Price tracker: the check loop of the two programs of the repository.    *)
(*                                                                         *)
(*   src/main.py              SQLite store, a batch is one thread that     *)
(*                            checks its products one after another on     *)
(*                            one connection and commits at the end.       *)
(*   src/price_tracker_bot.py MongoDB store, a batch hands one task per    *)
(*                            product to the module-level THREAD_POOL.     *)
(*                                                                         *)
(* The variable program says which of the two files is running; it is      *)
(* chosen in Init and never changes.                                       *)
(*                                                                         *)
(* Prices are whole currency units.  The collaborators answer normally in  *)
(* Spec and SpecBatch: the store accepts every write (a writer that finds  *)
(* the SQLite write lock taken waits for it), the notifier delivers and    *)
(* the sites serve positive prices.  The other specifications let one      *)
(* collaborator at a time misbehave.                                       *)
(***************************************************************************)
EXTENDS Integers, Sequences, FiniteSets, TLC

\* ------------------------------------------------------------------ bounds
MaxProducts == 1     \* products added under Spec
MaxBatches == 2      \* batches started under Spec (check_prices_now)
MaxTime == 1         \* seconds the wall clock advances
MaxIds == 3          \* product ids the store can hand out
PoolBatches == 2     \* batches started under SpecBatch
DeleteBatches == 1   \* batches started under SpecDelete
FaultBatches == 1    \* batches started under SpecNotify and SpecFault
FormProducts == 2    \* products added under SpecForm

\* --------------------------------------------------------------- constants
max_workers == 5     \* THREAD_POOL = ThreadPoolExecutor(max_workers=5)

NA == -1             \* no price: "N/A" (price_tracker_bot.py) / None (main.py)
Fail == -2           \* scrape_product returned (None, None)
NaN == -3            \* float("nan"): every comparison with it is False
ValueError == -4     \* float(text) raised ValueError
None == "None"       \* self.user_id = None

Programs == {"main.py", "price_tracker_bot.py"}
Users == {"u1", "u2"}
UrlList == <<"amazon.in/a", "flipkart.com/b", "myntra.com/c">>
Urls == {UrlList[i] : i \in DOMAIN UrlList}
Prices == {1, 2, 3}          \* prices a site serves
ProductTitle == "Product title"   \* text of the title node at creation
NewTitle == "New product title"   \* text of the title node at a later check
LowInputs == {1, 2}          \* low price typed by the user (validated > 0)
HighInputs == {0, 2, 3}      \* high price typed by the user, 0.0 when left empty

\* Answers of the store to a write: done, no connection (get_db_client
\* returns None), or the write statement raises.
StoreAnswers == {"ok", "down", "raise"}

\* Lines of the error log.
NotifyFailed == "Failed to send notification"
ConnectFailed == "Failed to connect to MongoDB"

\* Texts of the messageboxes of add_product, update_prices and
\* remove_selected.
MissingInput == "Please enter a URL and at least a low price."
InvalidNumbers == "Prices must be valid numbers."
ScrapeFailed == "Failed to scrape product details. Check the URL or try again."
AlreadyTracked == "This URL is already being tracked."
Added == "Added to tracking list."
NoChanges == "Please enter new low or high price values to update."
Updated == "Product prices updated successfully!"
Removed == "Product removed."

DropAlert == "Price Drop Alert!"
IncreaseAlert == "Price Increase Alert!"
Drop == "Price Drop!"
Increase == "Price Increase!"

VARIABLES
    program,     \* which source file runs
    products,    \* products collection / table: set of product records
    nextId,      \* next product id the store hands out
    price_history, \* price_history collection / table: product id -> rows
    clock,       \* datetime.now() in seconds, as last read
    batches,     \* one record per started batch (run_in_thread)
    tasks,       \* one record per per-product check
    adding,      \* price_tracker_bot.py add_product between its two writes
    deleting,    \* price_tracker_bot.py delete_product_from_db between its
                 \* two writes: the product id, 0 otherwise
    lock,        \* main.py: batch holding the SQLite write lock, 0 if free
    pending,     \* main.py: rows inserted by the lock holder, not committed
    message,     \* the last messagebox the form has shown, "" before any
    self_user_id, \* App.user_id: the user of the session, None when logged out
    jobs,        \* jobs registered with the schedule module
    run_schedule, \* run_schedule threads started
    scraped      \* a call of scrape_product: its url, the page and the result

vars == <<program, products, nextId, price_history, clock, batches, tasks,
          adding, deleting, lock, pending, message, self_user_id, jobs,
          run_schedule, scraped>>

\* ----------------------------------------------------------------- helpers
Max(S) == CHOOSE x \in S : \A y \in S : y <= x

\* Prices a "sort by timestamp descending, first row" query may return for
\* the rows given: any row carrying the greatest timestamp (the timestamp
\* is a string with one-second resolution, the order among equal
\* timestamps is the store's choice); NA when there is no row.
latest_price(rows) ==
    IF rows = <<>> THEN {NA}
    ELSE LET top == Max({rows[i].timestamp : i \in DOMAIN rows})
         IN {rows[i].price : i \in {j \in DOMAIN rows : rows[j].timestamp = top}}

\* Variant: the high threshold is tested before the low one.
notify_high_first(low_price, high_price, last_price, current_price) ==
    IF current_price >= high_price /\ high_price > 0 THEN <<IncreaseAlert>>
    ELSE IF current_price <= low_price THEN <<DropAlert>>
    ELSE IF last_price # NA /\ current_price < last_price THEN <<Drop>>
    ELSE IF last_price # NA /\ current_price > last_price THEN <<Increase>>
    ELSE <<>>

\* Variant: the comparison with the last price is a separate if, not an
\* elif of the threshold tests.
notify_separate_ifs(low_price, high_price, last_price, current_price) ==
    (IF current_price <= low_price THEN <<DropAlert>>
     ELSE IF current_price >= high_price /\ high_price > 0 THEN <<IncreaseAlert>>
     ELSE <<>>)
    \o (IF last_price # NA /\ current_price < last_price THEN <<Drop>>
        ELSE IF last_price # NA /\ current_price > last_price THEN <<Increase>>
        ELSE <<>>)

\* Variant: the last price is compared without testing that there is one.
notify_no_na_test(low_price, high_price, last_price, current_price) ==
    IF current_price <= low_price THEN <<DropAlert>>
    ELSE IF current_price >= high_price /\ high_price > 0 THEN <<IncreaseAlert>>
    ELSE IF current_price < last_price THEN <<Drop>>
    ELSE IF current_price > last_price THEN <<Increase>>
    ELSE <<>>

\* Variant: the high threshold is compared without testing that it is set.
notify_no_high_sentinel(low_price, high_price, last_price, current_price) ==
    IF current_price <= low_price THEN <<DropAlert>>
    ELSE IF current_price >= high_price THEN <<IncreaseAlert>>
    ELSE IF last_price # NA /\ current_price < last_price THEN <<Drop>>
    ELSE IF last_price # NA /\ current_price > last_price THEN <<Increase>>
    ELSE <<>>

\* The decision chain of check_single_product: the titles handed to
\* send_notification, in order.
check_single_product_notify(low_price, high_price, last_price, current_price) ==
    IF current_price <= low_price THEN <<DropAlert>>
    ELSE IF current_price >= high_price /\ high_price > 0 THEN <<IncreaseAlert>>
    ELSE IF last_price # NA /\ current_price < last_price THEN <<Drop>>
    ELSE IF last_price # NA /\ current_price > last_price THEN <<Increase>>
    ELSE <<>>

\* Variant: the high threshold must be exceeded, not reached.
notify_high_strict(low_price, high_price, last_price, current_price) ==
    IF current_price <= low_price THEN <<DropAlert>>
    ELSE IF current_price > high_price /\ high_price > 0 THEN <<IncreaseAlert>>
    ELSE IF last_price # NA THEN
        IF current_price < last_price THEN <<Drop>>
        ELSE IF current_price > last_price THEN <<Increase>>
        ELSE <<>>
    ELSE <<>>

\* Variant: the two comparisons with the last price are exchanged.
notify_delta_swapped(low_price, high_price, last_price, current_price) ==
    IF current_price <= low_price THEN <<DropAlert>>
    ELSE IF current_price >= high_price /\ high_price > 0 THEN <<IncreaseAlert>>
    ELSE IF last_price # NA THEN
        IF current_price > last_price THEN <<Drop>>
        ELSE IF current_price < last_price THEN <<Increase>>
        ELSE <<>>
    ELSE <<>>

\* The decision chain in the loop body of main.py's check_prices.
check_prices_notify(low_price, high_price, last_price, current_price) ==
    IF current_price <= low_price THEN <<DropAlert>>
    ELSE IF current_price >= high_price /\ high_price > 0 THEN <<IncreaseAlert>>
    ELSE IF last_price # NA THEN
        IF current_price < last_price THEN <<Drop>>
        ELSE IF current_price > last_price THEN <<Increase>>
        ELSE <<>>
    ELSE <<>>

\* send_notification(title, message) for the titles of one check: the
\* lines it logs.  notification.notify raising is caught and logged, the
\* call returns either way.
send_notification(titles, delivered) ==
    IF titles # <<>> /\ ~delivered THEN {NotifyFailed} ELSE {}

\* add_price_history / INSERT INTO price_history: the row written at time
\* now, the value of datetime.now() cut to the second.  Every action that
\* writes a row reads the clock: now is the previous reading or a later
\* second.
row(price, now) == [price |-> price, timestamp |-> now]

TaskIds == DOMAIN tasks
BatchIds == DOMAIN batches
TasksOf(b) == {t \in TaskIds : tasks[t].batch = b}
Running == {t \in TaskIds : tasks[t].pc \in {"scrape", "persist"}}

\* ------------------------------------------------------------------- Init
Init ==
    /\ program \in Programs
    /\ products = {}
    /\ nextId = 1
    /\ price_history = [p \in 1..MaxIds |-> <<>>]
    /\ clock = 0
    /\ batches = <<>>
    /\ tasks = <<>>
    /\ adding = <<>>
    /\ deleting = 0
    /\ lock = 0
    /\ pending = <<>>
    /\ message = ""
    /\ self_user_id = None
    /\ jobs = 0
    /\ run_schedule = 0
    /\ scraped = <<>>

\* Products of a set in the order the store lists them (insertion order,
\* which is the order of the ids).
RECURSIVE ListById(_)
ListById(S) ==
    IF S = {} THEN <<>>
    ELSE LET p == CHOOSE x \in S : \A y \in S : x.id <= y.id
         IN <<p>> \o ListById(S \ {p})

\* --------------------------------------------------- price_tracker_bot.py
IsBot == program = "price_tracker_bot.py"

\* Variant: the product is inserted without looking for the user's url.
add_product_to_db_unchecked(user_id, url, low_price, high_price) ==
    products \cup {[id |-> nextId, user_id |-> user_id, url |-> url,
                    name |-> ProductTitle,
                    low_price |-> low_price, high_price |-> high_price]}

\* add_product_to_db: the product record inserted, or rejected when the
\* user already tracks the url (find_one on user_id and url).
add_product_to_db(user_id, url, low_price, high_price) ==
    IF \E p \in products : p.user_id = user_id /\ p.url = url
    THEN products
    ELSE products \cup {[id |-> nextId, user_id |-> user_id, url |-> url,
                         name |-> ProductTitle,
                         low_price |-> low_price, high_price |-> high_price]}

\* Variant: an observation whose price equals the last recorded one is not
\* inserted.
add_price_history_dedup(product_id, price, now) ==
    IF price_history[product_id] # <<>>
       /\ price_history[product_id][Len(price_history[product_id])].price = price
    THEN price_history
    ELSE [price_history EXCEPT ![product_id] = Append(@, [price |-> price, timestamp |-> now])]

\* add_price_history(product_id, price): insert_one with the current time.
add_price_history(product_id, price, now) ==
    [price_history EXCEPT ![product_id] = Append(@, row(price, now))]

\* App.add_product up to add_product_to_db: the inputs pass validation and
\* the scrape returned a name and a price.
add_product(user_id, url, low_price, high_price, price) ==
    /\ IsBot
    /\ adding = <<>>
    /\ products' = add_product_to_db(user_id, url, low_price, high_price)
    /\ IF products' # products
       THEN /\ nextId' = nextId + 1
            /\ adding' = <<nextId, price>>
            /\ UNCHANGED message
       ELSE /\ message' = AlreadyTracked
            /\ UNCHANGED <<nextId, adding>>
    /\ UNCHANGED <<program, self_user_id, jobs, run_schedule, scraped, deleting, price_history, clock, batches, tasks, lock, pending>>

\* App.add_product, second write: add_price_history(str(product_id), price),
\* and the messagebox.
add_product_history(now) ==
    /\ IsBot
    /\ adding # <<>>
    /\ price_history' = add_price_history(adding[1], adding[2], now)
    /\ clock' = now
    /\ adding' = <<>>
    /\ message' = Added
    /\ UNCHANGED <<program, self_user_id, jobs, run_schedule, scraped, deleting, products, nextId, batches, tasks, lock, pending>>

\* remove_selected -> delete_product_from_db(product_id), first write:
\* products_collection.delete_one.
delete_product_from_db(product_id) ==
    /\ IsBot
    /\ deleting = 0
    /\ \E p \in products : p.id = product_id
    /\ products' = {p \in products : p.id # product_id}
    /\ deleting' = product_id
    /\ UNCHANGED <<program, self_user_id, jobs, run_schedule, scraped, nextId, price_history, clock, batches, tasks, adding,
                   lock, pending, message>>

\* delete_product_from_db, second write: price_history_collection.delete_many.
delete_product_history ==
    /\ IsBot
    /\ deleting # 0
    /\ price_history' = [price_history EXCEPT ![deleting] = <<>>]
    /\ deleting' = 0
    /\ message' = Removed
    /\ UNCHANGED <<program, self_user_id, jobs, run_schedule, scraped, products, nextId, clock, batches, tasks, adding,
                   lock, pending>>

\* get_user_products(user_id): the user's products, each with the price
\* find_one(sort timestamp desc) returned; pick gives that price per id.
get_user_products(user_id, pick) ==
    LET mine == ListById({p \in products : p.user_id = user_id})
    IN [i \in DOMAIN mine |->
           [id |-> mine[i].id, url |-> mine[i].url,
            low_price |-> mine[i].low_price, high_price |-> mine[i].high_price,
            latest_price |-> pick[mine[i].id]]]

NewTask(b, product, pc) ==
    [batch |-> b, id |-> product.id, url |-> product.url,
     low_price |-> product.low_price, high_price |-> product.high_price,
     last_price |-> product.latest_price, current_price |-> NA,
     sent |-> <<>>, logged |-> {}, appended |-> 0, pc |-> pc]

\* check_prices(user_id) called by run_in_thread: loads the products and
\* hands one check_single_product task per product to THREAD_POOL.map,
\* which queues them and returns its result iterator at once; nobody reads
\* the iterator, so check_prices returns.
check_prices(user_id) ==
    /\ IsBot
    /\ \E pick \in [1..MaxIds -> Prices \cup {NA}] :
          /\ \A p \in 1..MaxIds : pick[p] \in latest_price(price_history[p])
          /\ LET b == Len(batches) + 1
                 loaded == get_user_products(user_id, pick)
             IN /\ tasks' = tasks \o [i \in DOMAIN loaded |-> NewTask(b, loaded[i], "queued")]
                /\ batches' = Append(batches, [user_id |-> user_id, pc |-> "returned"])
    /\ UNCHANGED <<program, self_user_id, jobs, run_schedule, scraped, message, deleting, products, nextId, price_history, clock, adding, lock, pending>>

\* Variant: every submitted task gets a thread of its own.
worker_start_unbounded(t) ==
    /\ IsBot
    /\ tasks[t].pc = "queued"
    /\ \A s \in TaskIds : s < t => tasks[s].pc # "queued"
    /\ tasks' = [tasks EXCEPT ![t].pc = "scrape"]
    /\ UNCHANGED <<program, self_user_id, jobs, run_schedule, scraped, message, deleting, products, nextId, price_history, clock, batches,
                   adding, lock, pending>>

\* Variant: send_notification does not catch what notification.notify
\* raises, so the exception ends the check before the history write.
scrape_notifier_uncaught(t, result, delivered) ==
    /\ IsBot
    /\ tasks[t].pc = "scrape"
    /\ tasks' = IF result = Fail
                THEN [tasks EXCEPT ![t].current_price = Fail, ![t].pc = "done"]
                ELSE LET titles == check_single_product_notify(
                                      tasks[t].low_price, tasks[t].high_price,
                                      tasks[t].last_price, result)
                     IN [tasks EXCEPT
                           ![t].current_price = result,
                           ![t].sent = @ \o titles,
                           ![t].pc = IF titles # <<>> /\ ~delivered
                                     THEN "raised" ELSE "persist"]
    /\ UNCHANGED <<program, self_user_id, jobs, run_schedule, scraped, message, deleting, products, nextId, price_history, clock, batches,
                   adding, lock, pending>>

\* A THREAD_POOL worker takes the oldest queued task; the pool has
\* max_workers threads.
worker_start(t) ==
    /\ IsBot
    /\ tasks[t].pc = "queued"
    /\ \A s \in TaskIds : s < t => tasks[s].pc # "queued"
    /\ Cardinality(Running) < max_workers
    /\ tasks' = [tasks EXCEPT ![t].pc = "scrape"]
    /\ UNCHANGED <<program, self_user_id, jobs, run_schedule, scraped, message, deleting, products, nextId, price_history, clock, batches,
                   adding, lock, pending>>

\* Variant: the test 'if current_price is None: return' is missing, the
\* check of a failed scrape goes on to the history write.
scrape_failure_recorded(t, result, delivered) ==
    /\ IsBot
    /\ tasks[t].pc = "scrape"
    /\ tasks' = IF result = Fail
                THEN [tasks EXCEPT ![t].current_price = Fail, ![t].pc = "persist"]
                ELSE LET titles == check_single_product_notify(
                                      tasks[t].low_price, tasks[t].high_price,
                                      tasks[t].last_price, result)
                     IN [tasks EXCEPT
                           ![t].current_price = result,
                           ![t].sent = @ \o titles,
                           ![t].logged = @ \cup send_notification(titles, delivered),
                           ![t].pc = "persist"]
    /\ UNCHANGED <<program, self_user_id, jobs, run_schedule, scraped, message, deleting, products, nextId, price_history, clock, batches,
                   adding, lock, pending>>

\* Variant: add_price_history is called before the if/elif chain, so the
\* notification comes after the history write.
scrape_write_before_notify(t, result, delivered) ==
    /\ IsBot
    /\ tasks[t].pc = "scrape"
    /\ IF result = Fail
       THEN /\ tasks' = [tasks EXCEPT ![t].current_price = Fail, ![t].pc = "done"]
            /\ UNCHANGED price_history
       ELSE LET titles == check_single_product_notify(
                             tasks[t].low_price, tasks[t].high_price,
                             tasks[t].last_price, result)
            IN /\ price_history' = add_price_history(tasks[t].id, result, clock)
               /\ tasks' = [tasks EXCEPT
                              ![t].current_price = result,
                              ![t].appended = @ + 1,
                              ![t].sent = @ \o titles,
                              ![t].logged = @ \cup send_notification(titles, delivered),
                              ![t].pc = "done"]
    /\ UNCHANGED <<program, self_user_id, jobs, run_schedule, scraped, message, deleting, products, nextId, clock, batches,
                   adding, lock, pending>>

\* Variant: the check writes the freshly scraped name back to the product.
scrape_refreshes_name(t, result, delivered) ==
    /\ IsBot
    /\ tasks[t].pc = "scrape"
    /\ IF result = Fail
       THEN /\ tasks' = [tasks EXCEPT ![t].current_price = Fail, ![t].pc = "done"]
            /\ UNCHANGED products
       ELSE LET titles == check_single_product_notify(
                             tasks[t].low_price, tasks[t].high_price,
                             tasks[t].last_price, result)
            IN /\ products' = {IF p.id = tasks[t].id THEN [p EXCEPT !.name = NewTitle]
                                ELSE p : p \in products}
               /\ tasks' = [tasks EXCEPT
                              ![t].current_price = result,
                              ![t].sent = @ \o titles,
                              ![t].logged = @ \cup send_notification(titles, delivered),
                              ![t].pc = "persist"]
    /\ UNCHANGED <<program, self_user_id, jobs, run_schedule, scraped, message, deleting,
                   nextId, price_history, clock, batches, adding, lock, pending>>

\* check_single_product from the return of scrape_product(url) to the
\* return of send_notification: result is Fail for (None, None), in which
\* case the task returns; otherwise the if/elif chain notifies, delivered
\* telling whether the notifier delivers.
check_single_product_scrape(t, result, delivered) ==
    /\ IsBot
    /\ tasks[t].pc = "scrape"
    /\ tasks' = IF result = Fail
                THEN [tasks EXCEPT ![t].current_price = Fail, ![t].pc = "done"]
                ELSE LET titles == check_single_product_notify(
                                      tasks[t].low_price, tasks[t].high_price,
                                      tasks[t].last_price, result)
                     IN [tasks EXCEPT
                           ![t].current_price = result,
                           ![t].sent = @ \o titles,
                           ![t].logged = @ \cup send_notification(titles, delivered),
                           ![t].pc = "persist"]
    /\ UNCHANGED <<program, self_user_id, jobs, run_schedule, scraped, message, deleting, products, nextId, price_history, clock, batches,
                   adding, lock, pending>>

\* Variant: the history write sits in the final else of the if/elif chain,
\* so a check that notified does not record the price.
persist_only_without_event(t, now, write) ==
    /\ IsBot
    /\ tasks[t].pc = "persist"
    /\ write = "ok"
    /\ IF tasks[t].sent = <<>>
       THEN /\ price_history' = [price_history EXCEPT
                                    ![tasks[t].id] = Append(@, row(tasks[t].current_price, now))]
            /\ clock' = now
            /\ tasks' = [tasks EXCEPT ![t].appended = @ + 1, ![t].pc = "done"]
       ELSE /\ tasks' = [tasks EXCEPT ![t].pc = "done"]
            /\ UNCHANGED <<price_history, clock>>
    /\ UNCHANGED <<program, self_user_id, jobs, run_schedule, scraped, message, deleting, products, nextId, batches, adding, lock, pending>>

\* check_single_product: add_price_history(product_id, current_price), and
\* the store's answer.  Without a connection get_db_client logs and
\* returns None, add_price_history writes nothing and the task returns.
\* When insert_one raises, the exception leaves check_single_product and
\* stays in the task's future, which nobody reads.
check_single_product_persist(t, now, write) ==
    /\ IsBot
    /\ tasks[t].pc = "persist"
    /\ CASE write = "ok" ->
            /\ price_history' = add_price_history(tasks[t].id, tasks[t].current_price, now)
            /\ clock' = now
            /\ tasks' = [tasks EXCEPT ![t].appended = @ + 1, ![t].pc = "done"]
         [] write = "down" ->
            /\ tasks' = [tasks EXCEPT ![t].logged = @ \cup {ConnectFailed},
                                      ![t].pc = "done"]
            /\ UNCHANGED <<price_history, clock>>
         [] write = "raise" ->
            /\ tasks' = [tasks EXCEPT ![t].pc = "raised"]
            /\ UNCHANGED <<price_history, clock>>
    /\ UNCHANGED <<program, self_user_id, jobs, run_schedule, scraped, message, deleting, products, nextId, batches, adding, lock, pending>>

\* ---------------------------------------------------------------- main.py
IsMain == program = "main.py"

\* Rows of pending that belong to one product, in insertion order.
RECURSIVE RowsOf(_, _)
RowsOf(rows, product_id) ==
    IF rows = <<>> THEN <<>>
    ELSE (IF Head(rows).product_id = product_id
          THEN <<[price |-> Head(rows).price, timestamp |-> Head(rows).timestamp]>>
          ELSE <<>>) \o RowsOf(Tail(rows), product_id)

\* What the connection of batch b reads from price_history for a product:
\* the committed rows, and its own uncommitted ones.
Visible(b, product_id) ==
    price_history[product_id] \o (IF lock = b THEN RowsOf(pending, product_id) ELSE <<>>)

\* A float bound to a REAL column: sqlite3 stores a NaN as NULL, which
\* reads back as None.
sqlite_real(v) == IF v = NaN THEN NA ELSE v

\* App.add_product of main.py: the inputs pass validation, the scrape
\* returned a name and a price; INSERT INTO products (url is UNIQUE over the
\* whole table, IntegrityError otherwise), INSERT INTO price_history, commit.
\* The writer waits while a batch holds the write lock.
main_add_product(user_id, url, low_price, high_price, price, now) ==
    /\ IsMain
    /\ lock = 0
    /\ IF \E p \in products : p.url = url
       THEN /\ message' = AlreadyTracked
            /\ UNCHANGED <<products, nextId, price_history, clock>>
       ELSE /\ products' = products \cup
                   {[id |-> nextId, user_id |-> user_id, url |-> url,
                     name |-> ProductTitle,
                     low_price |-> sqlite_real(low_price),
                     high_price |-> sqlite_real(high_price)]}
            /\ nextId' = nextId + 1
            /\ price_history' = [price_history EXCEPT
                                    ![nextId] = Append(@, row(price, now))]
            /\ clock' = now
            /\ message' = Added
    /\ UNCHANGED <<program, self_user_id, jobs, run_schedule, scraped, deleting, batches, tasks, adding, lock, pending>>

\* App.remove_selected of main.py: DELETE FROM products, DELETE FROM
\* price_history, commit, on one connection.  The writer waits while a
\* batch holds the write lock.
main_remove_selected(product_id) ==
    /\ IsMain
    /\ lock = 0
    /\ \E p \in products : p.id = product_id
    /\ products' = {p \in products : p.id # product_id}
    /\ price_history' = [price_history EXCEPT ![product_id] = <<>>]
    /\ message' = Removed
    /\ UNCHANGED <<program, self_user_id, jobs, run_schedule, scraped, deleting, nextId, clock, batches, tasks, adding,
                   lock, pending>>

\* check_prices(user_id) of main.py, up to the loop: connect, SELECT the
\* user's products, fetchall.
main_check_prices(user_id) ==
    /\ IsMain
    /\ LET b == Len(batches) + 1
           loaded == get_user_products(user_id, [p \in 1..MaxIds |-> NA])
       IN /\ tasks' = tasks \o [i \in DOMAIN loaded |-> NewTask(b, loaded[i], "queued")]
          /\ batches' = Append(batches, [user_id |-> user_id, pc |-> "loop"])
    /\ UNCHANGED <<program, self_user_id, jobs, run_schedule, scraped, message, deleting, products, nextId, price_history, clock, adding, lock, pending>>

\* Variant: a failed scrape leaves the loop (break) instead of going on
\* with the next product (continue).
main_scrape_break(t, result, delivered) ==
    /\ IsMain
    /\ tasks[t].pc = "queued"
    /\ \A s \in TasksOf(tasks[t].batch) : s < t => tasks[s].pc = "done"
    /\ IF result = Fail
       THEN tasks' = [s \in DOMAIN tasks |->
                        IF s = t
                        THEN [tasks[s] EXCEPT !.current_price = Fail, !.pc = "done"]
                        ELSE IF tasks[s].batch = tasks[t].batch /\ s > t
                        THEN [tasks[s] EXCEPT !.pc = "done"]
                        ELSE tasks[s]]
       ELSE \E last_price \in latest_price(Visible(tasks[t].batch, tasks[t].id)) :
              LET titles == check_prices_notify(
                                tasks[t].low_price, tasks[t].high_price,
                                last_price, result)
              IN tasks' = [tasks EXCEPT
                             ![t].current_price = result,
                             ![t].last_price = last_price,
                             ![t].sent = @ \o titles,
                             ![t].logged = @ \cup send_notification(titles, delivered),
                             ![t].pc = "persist"]
    /\ UNCHANGED <<program, self_user_id, jobs, run_schedule, scraped, message, deleting, products, nextId, price_history, clock, batches,
                   adding, lock, pending>>

\* Variant: a failed scrape is tried again instead of going on with the
\* next product.
main_scrape_retry(t, result, delivered) ==
    /\ IsMain
    /\ tasks[t].pc = "queued"
    /\ \A s \in TasksOf(tasks[t].batch) : s < t => tasks[s].pc = "done"
    /\ IF result = Fail
       THEN tasks' = [tasks EXCEPT ![t].current_price = Fail]
       ELSE \E last_price \in latest_price(Visible(tasks[t].batch, tasks[t].id)) :
              LET titles == check_prices_notify(
                                tasks[t].low_price, tasks[t].high_price,
                                last_price, result)
              IN tasks' = [tasks EXCEPT
                             ![t].current_price = result,
                             ![t].last_price = last_price,
                             ![t].sent = @ \o titles,
                             ![t].logged = @ \cup send_notification(titles, delivered),
                             ![t].pc = "persist"]
    /\ UNCHANGED <<program, self_user_id, jobs, run_schedule, scraped, message, deleting, products, nextId, price_history, clock, batches,
                   adding, lock, pending>>

\* Loop body of check_prices from the return of scrape_product(url) to the
\* return of send_notification: continue on (None, None); otherwise SELECT
\* the last price (ORDER BY timestamp DESC LIMIT 1) and run the if/elif
\* chain, delivered telling whether the notifier delivers.
main_check_prices_scrape(t, result, delivered) ==
    /\ IsMain
    /\ tasks[t].pc = "queued"
    /\ \A s \in TasksOf(tasks[t].batch) : s < t => tasks[s].pc = "done"
    /\ IF result = Fail
       THEN tasks' = [tasks EXCEPT ![t].current_price = Fail, ![t].pc = "done"]
       ELSE \E last_price \in latest_price(Visible(tasks[t].batch, tasks[t].id)) :
              LET titles == check_prices_notify(
                                tasks[t].low_price, tasks[t].high_price,
                                last_price, result)
              IN tasks' = [tasks EXCEPT
                             ![t].current_price = result,
                             ![t].last_price = last_price,
                             ![t].sent = @ \o titles,
                             ![t].logged = @ \cup send_notification(titles, delivered),
                             ![t].pc = "persist"]
    /\ UNCHANGED <<program, self_user_id, jobs, run_schedule, scraped, message, deleting, products, nextId, price_history, clock, batches,
                   adding, lock, pending>>

\* Loop body of check_prices: INSERT INTO price_history, not committed yet.
\* The first INSERT of the batch takes the write lock; it waits while
\* another connection holds it.  When the INSERT raises (the wait for the
\* lock timed out, the disk failed), the exception leaves check_prices and
\* ends the thread of the batch: the loop is left, commit is not reached,
\* and the connection is dropped with its uncommitted rows.
main_check_prices_insert(t, now, write) ==
    /\ IsMain
    /\ tasks[t].pc = "persist"
    /\ CASE write = "ok" ->
            /\ lock \in {0, tasks[t].batch}
            /\ lock' = tasks[t].batch
            /\ pending' = Append(pending, [product_id |-> tasks[t].id,
                                           price |-> tasks[t].current_price,
                                           timestamp |-> now])
            /\ clock' = now
            /\ tasks' = [tasks EXCEPT ![t].appended = @ + 1, ![t].pc = "done"]
            /\ UNCHANGED batches
         [] write = "raise" ->
            /\ tasks' = [tasks EXCEPT ![t].pc = "raised"]
            /\ batches' = [batches EXCEPT ![tasks[t].batch].pc = "raised"]
            /\ IF lock = tasks[t].batch
               THEN lock' = 0 /\ pending' = <<>>
               ELSE UNCHANGED <<lock, pending>>
            /\ UNCHANGED clock
         [] OTHER -> FALSE
    /\ UNCHANGED <<program, self_user_id, jobs, run_schedule, scraped, message, deleting, products, nextId, price_history, adding>>

\* End of check_prices: conn.commit(), conn.close(); the call returns.
main_check_prices_commit(b) ==
    /\ IsMain
    /\ batches[b].pc = "loop"
    /\ \A t \in TasksOf(b) : tasks[t].pc = "done"
    /\ IF lock = b
       THEN /\ price_history' = [p \in 1..MaxIds |->
                                    price_history[p] \o RowsOf(pending, p)]
            /\ lock' = 0
            /\ pending' = <<>>
       ELSE UNCHANGED <<price_history, lock, pending>>
    /\ batches' = [batches EXCEPT ![b].pc = "returned"]
    /\ UNCHANGED <<program, self_user_id, jobs, run_schedule, scraped, message, deleting, products, nextId, clock, tasks, adding>>

Next ==
    \/ /\ nextId <= MaxProducts
       /\ \E u \in Users, url \in Urls, low \in LowInputs, high \in HighInputs,
             price \in Prices : add_product(u, url, low, high, price)
    \/ \E now \in clock..MaxTime : add_product_history(now)
    \/ /\ Len(batches) < MaxBatches
       /\ \E u \in Users : check_prices(u)
    \/ \E t \in TaskIds : worker_start(t)
    \/ \E t \in TaskIds, r \in Prices \cup {Fail} : check_single_product_scrape(t, r, TRUE)
    \/ \E t \in TaskIds, now \in clock..MaxTime : check_single_product_persist(t, now, "ok")
    \/ /\ nextId <= MaxProducts
       /\ \E u \in Users, url \in Urls, low \in LowInputs, high \in HighInputs,
             price \in Prices, now \in clock..MaxTime :
                main_add_product(u, url, low, high, price, now)
    \/ /\ Len(batches) < MaxBatches
       /\ \E u \in Users : main_check_prices(u)
    \/ \E t \in TaskIds, r \in Prices \cup {Fail} : main_check_prices_scrape(t, r, TRUE)
    \/ \E t \in TaskIds, now \in clock..MaxTime : main_check_prices_insert(t, now, "ok")
    \/ \E b \in BatchIds : main_check_prices_commit(b)

Spec == Init /\ [][Next]_vars

\* ------------------------------------------------------------- SpecBatch
\* Batches over a store that already tracks one product per url for user
\* u1 (three add_product calls earlier), every product with one observation
\* of price 2, low_price 1 and no high price.  The sites serve price 2 or
\* the scrape fails, and every row is written within the second of the
\* first clock reading: the claims checked here count rows and tasks and
\* read no timestamp.
BatchUser == "u1"
BatchPrice == 2       \* price the sites serve under SpecBatch
InitBatch ==
    /\ program \in Programs
    /\ products = {[id |-> i, user_id |-> BatchUser, url |-> UrlList[i],
                     name |-> ProductTitle,
                     low_price |-> 1, high_price |-> 0] : i \in DOMAIN UrlList}
    /\ nextId = Len(UrlList) + 1
    /\ price_history = [p \in 1..MaxIds |->
                          IF p \in DOMAIN UrlList
                          THEN <<[price |-> BatchPrice, timestamp |-> 0]>>
                          ELSE <<>>]
    /\ clock = 0
    /\ batches = <<>>
    /\ tasks = <<>>
    /\ adding = <<>>
    /\ deleting = 0
    /\ lock = 0
    /\ pending = <<>>
    /\ message = ""
    /\ self_user_id = None
    /\ jobs = 0
    /\ run_schedule = 0
    /\ scraped = <<>>

NextBatch ==
    \/ /\ Len(batches) < PoolBatches
       /\ check_prices(BatchUser)
    \/ \E t \in TaskIds : worker_start(t)
    \/ \E t \in TaskIds, r \in {BatchPrice, Fail} : check_single_product_scrape(t, r, TRUE)
    \/ \E t \in TaskIds : check_single_product_persist(t, clock, "ok")
    \/ /\ Len(batches) < PoolBatches
       /\ main_check_prices(BatchUser)
    \/ \E t \in TaskIds, r \in {BatchPrice, Fail} : main_check_prices_scrape(t, r, TRUE)
    \/ \E t \in TaskIds : main_check_prices_insert(t, clock, "ok")
    \/ \E b \in BatchIds : main_check_prices_commit(b)

SpecBatch == InitBatch /\ [][NextBatch]_vars

\* ------------------------------------------------------------ SpecDelete
\* The store of SpecBatch, batches, and the user removing products while
\* they run.
NextDelete ==
    \/ /\ Len(batches) < DeleteBatches
       /\ check_prices(BatchUser)
    \/ \E t \in TaskIds : worker_start(t)
    \/ \E t \in TaskIds, r \in {BatchPrice, Fail} : check_single_product_scrape(t, r, TRUE)
    \/ \E t \in TaskIds : check_single_product_persist(t, clock, "ok")
    \/ \E p \in 1..MaxIds : delete_product_from_db(p)
    \/ delete_product_history
    \/ /\ Len(batches) < DeleteBatches
       /\ main_check_prices(BatchUser)
    \/ \E t \in TaskIds, r \in {BatchPrice, Fail} : main_check_prices_scrape(t, r, TRUE)
    \/ \E t \in TaskIds : main_check_prices_insert(t, clock, "ok")
    \/ \E b \in BatchIds : main_check_prices_commit(b)
    \/ \E p \in 1..MaxIds : main_remove_selected(p)

SpecDelete == InitBatch /\ [][NextDelete]_vars

\* ------------------------------------------------------------ SpecNotify
\* The store of SpecBatch and batches whose notifier may fail: the sites
\* serve the low price of the products (a 'Price Drop Alert!' is due), the
\* price of SpecBatch, or the scrape fails.
NotifyPrices == {1, BatchPrice}
NextNotify ==
    \/ /\ Len(batches) < FaultBatches
       /\ check_prices(BatchUser)
    \/ \E t \in TaskIds : worker_start(t)
    \/ \E t \in TaskIds, r \in NotifyPrices \cup {Fail}, delivered \in BOOLEAN :
          check_single_product_scrape(t, r, delivered)
    \/ \E t \in TaskIds : check_single_product_persist(t, clock, "ok")
    \/ /\ Len(batches) < FaultBatches
       /\ main_check_prices(BatchUser)
    \/ \E t \in TaskIds, r \in NotifyPrices \cup {Fail}, delivered \in BOOLEAN :
          main_check_prices_scrape(t, r, delivered)
    \/ \E t \in TaskIds : main_check_prices_insert(t, clock, "ok")
    \/ \E b \in BatchIds : main_check_prices_commit(b)

SpecNotify == InitBatch /\ [][NextNotify]_vars

\* ------------------------------------------------------------- SpecFault
\* The store of SpecBatch and batches in which every collaborator may
\* misbehave: the site, the notifier and the store.

\* Numerals the price pattern \d+\.?\d* finds in the text of the price
\* node: the digits of "0" and "0.00" are a match like any others.
Numerals == {0, 1, BatchPrice}

\* What requests.get and the selectors of a site rule make of a page:
\* whether the fetch succeeded with a success status, whether the title
\* node was found, and the numeral found in the price node (NA when the
\* node is missing or holds no digit).
Pages ==
    {[fetched |-> FALSE, name |-> FALSE, numeral |-> NA],
     [fetched |-> TRUE, name |-> FALSE, numeral |-> 1],
     [fetched |-> TRUE, name |-> TRUE, numeral |-> NA]}
    \cup {[fetched |-> TRUE, name |-> TRUE, numeral |-> v] : v \in Numerals}

\* scrape_product(url) on a page: float(price_match.group(1)) when the
\* fetch, both selectors and the pattern succeed, (None, None) otherwise.
scrape_product(page) ==
    IF page.fetched /\ page.name /\ page.numeral # NA THEN page.numeral ELSE Fail

\* The steps of the threads that run the checks of the started batches.
CheckSteps ==
    \/ \E t \in TaskIds : worker_start(t)
    \/ \E t \in TaskIds, page \in Pages, delivered \in BOOLEAN :
          check_single_product_scrape(t, scrape_product(page), delivered)
    \/ \E t \in TaskIds, write \in StoreAnswers :
          check_single_product_persist(t, clock, write)
    \/ \E t \in TaskIds, page \in Pages, delivered \in BOOLEAN :
          main_check_prices_scrape(t, scrape_product(page), delivered)
    \/ \E t \in TaskIds, write \in StoreAnswers :
          main_check_prices_insert(t, clock, write)
    \/ \E b \in BatchIds : main_check_prices_commit(b)

NextFault ==
    \/ /\ Len(batches) < FaultBatches
       /\ check_prices(BatchUser)
    \/ /\ Len(batches) < FaultBatches
       /\ main_check_prices(BatchUser)
    \/ CheckSteps

SpecFault == InitBatch /\ [][NextFault]_vars

\* The threads of the pool and of the batches keep running.
LiveFault == SpecFault /\ WF_vars(CheckSteps)

\* -------------------------------------------------------------- SpecForm
\* The form of the main window: the user types a url and prices and
\* presses Add or Update, or removes the selected product.  No batch runs.

\* Texts typed into the low and high price entries ("" is an empty entry).
LowTexts == {"", "abc", "0", "-5", "1", "2", "nan"}
HighTexts == {"", "abc", "3"}

\* float(text) for the texts of the entries and of the cells of the
\* product list.
float(text) ==
    CASE text \in {"0", "0.00"} -> 0
      [] text \in {"1", "1.00"} -> 1
      [] text \in {"2", "2.00"} -> 2
      [] text \in {"3", "3.00"} -> 3
      [] text = "-5" -> -5
      [] text = "nan" -> NaN
      [] OTHER -> ValueError

\* a <= b on Python floats.
float_le(a, b) == a # NaN /\ b # NaN /\ a <= b

\* load_products: the text of a threshold cell of the product list,
\* f"{v:.2f}" if v else "N/A".
cell(v) ==
    CASE v = NaN -> "nan"
      [] v = 0 -> "N/A"
      [] v = 1 -> "1.00"
      [] v = 2 -> "2.00"
      [] v = 3 -> "3.00"

\* The try block of add_product and update_prices on the two parsed
\* prices: the message of the except branch, "" when the block passes.
validate(low_price, high_price) ==
    IF low_price = ValueError \/ high_price = ValueError \/ float_le(low_price, 0)
    THEN InvalidNumbers
    ELSE ""

\* The form shows a messagebox and changes nothing else.
show(text) ==
    /\ message' = text
    /\ UNCHANGED <<program, self_user_id, jobs, run_schedule, scraped, products, nextId, price_history, clock, batches, tasks,
                   adding, deleting, lock, pending>>

\* App.add_product of both programs, from the entries to the store.
App_add_product(user_id, url, low_price_str, high_price_str, page, now) ==
    LET low_price == float(low_price_str)
        high_price == IF high_price_str # "" THEN float(high_price_str) ELSE 0
        price == scrape_product(page)
    IN IF low_price_str = "" THEN show(MissingInput)
       ELSE IF validate(low_price, high_price) # ""
            THEN show(validate(low_price, high_price))
       ELSE IF price = Fail THEN show(ScrapeFailed)
       ELSE \/ add_product(user_id, url, low_price, high_price, price)
            \/ main_add_product(user_id, url, low_price, high_price, price, now)

\* App.update_prices (price_tracker_bot.py) on the selected product: an
\* empty entry keeps the value shown in the product list;
\* update_product_prices_in_db sets both thresholds.
update_prices(product_id, low_price_str, high_price_str) ==
    /\ IsBot
    /\ \E p \in products :
          /\ p.id = product_id
          /\ LET low_price == IF low_price_str # "" THEN float(low_price_str)
                              ELSE float(cell(p.low_price))
                 high_price == IF high_price_str # "" THEN float(high_price_str)
                               ELSE float(cell(p.high_price))
             IN IF low_price_str = "" /\ high_price_str = "" THEN show(NoChanges)
                ELSE IF validate(low_price, high_price) # ""
                     THEN show(validate(low_price, high_price))
                ELSE /\ products' = (products \ {p}) \cup
                            {[p EXCEPT !.low_price = low_price,
                                       !.high_price = high_price]}
                     /\ message' = Updated
                     /\ UNCHANGED <<program, self_user_id, jobs, run_schedule, scraped, nextId, price_history, clock, batches,
                                    tasks, adding, deleting, lock, pending>>

\* The product list shows the products of the session's user; the form
\* is busy while one of its handlers runs.
Selectable(product_id) ==
    /\ adding = <<>>
    /\ deleting = 0
    /\ \E p \in products : p.id = product_id

NextForm ==
    \/ /\ nextId <= FormProducts
       /\ deleting = 0
       /\ \E u \in Users, url \in Urls, low \in LowTexts, high \in HighTexts,
             page \in Pages : App_add_product(u, url, low, high, page, clock)
    \/ add_product_history(clock)
    \/ \E p \in 1..MaxIds, low \in LowTexts, high \in HighTexts :
          Selectable(p) /\ update_prices(p, low, high)
    \/ \E p \in 1..MaxIds : Selectable(p) /\ delete_product_from_db(p)
    \/ delete_product_history
    \/ \E p \in 1..MaxIds : Selectable(p) /\ main_remove_selected(p)

SpecForm == Init /\ [][NextForm]_vars

\* ----------------------------------------------------------- SpecHistory
\* Every operation that touches the store, on one user's products: the
\* product is added, batches check it, its thresholds are updated and it is
\* removed.  The collaborators answer normally, the sites serve one price
\* or the scrape fails.
HistoryProducts == 1  \* products added under SpecHistory
HistoryBatches == 2   \* batches started under SpecHistory
NextHistory ==
    \/ /\ nextId <= HistoryProducts
       /\ deleting = 0
       /\ \E url \in Urls : add_product(BatchUser, url, 1, 0, BatchPrice)
    \/ add_product_history(clock)
    \/ /\ Len(batches) < HistoryBatches
       /\ check_prices(BatchUser)
    \/ \E t \in TaskIds : worker_start(t)
    \/ \E t \in TaskIds, r \in {BatchPrice, Fail} : check_single_product_scrape(t, r, TRUE)
    \/ \E t \in TaskIds : check_single_product_persist(t, clock, "ok")
    \/ \E p \in 1..MaxIds, low \in {"", "2"}, high \in {"", "3"} :
          Selectable(p) /\ update_prices(p, low, high)
    \/ \E p \in 1..MaxIds : Selectable(p) /\ delete_product_from_db(p)
    \/ delete_product_history
    \/ /\ nextId <= HistoryProducts
       /\ \E url \in Urls : main_add_product(BatchUser, url, 1, 0, BatchPrice, clock)
    \/ /\ Len(batches) < HistoryBatches
       /\ main_check_prices(BatchUser)
    \/ \E t \in TaskIds, r \in {BatchPrice, Fail} : main_check_prices_scrape(t, r, TRUE)
    \/ \E t \in TaskIds : main_check_prices_insert(t, clock, "ok")
    \/ \E b \in BatchIds : main_check_prices_commit(b)
    \/ \E p \in 1..MaxIds : main_remove_selected(p)

SpecHistory == Init /\ [][NextHistory]_vars

\* -------------------------------------------------------------- SpecBusy
\* The store of SpecBatch and batches that overlap.  In main.py the INSERT
\* of a batch that finds the write lock held by another connection waits
\* for it, sqlite3.connect's default timeout of 5 seconds long: the lock
\* is released in time and the INSERT is done, or it is not and the INSERT
\* raises 'database is locked'.
BusyBatches == 2      \* batches started under SpecBusy
NextBusy ==
    \/ /\ Len(batches) < BusyBatches
       /\ check_prices(BatchUser)
    \/ \E t \in TaskIds : worker_start(t)
    \/ \E t \in TaskIds, r \in {BatchPrice, Fail} : check_single_product_scrape(t, r, TRUE)
    \/ \E t \in TaskIds : check_single_product_persist(t, clock, "ok")
    \/ /\ Len(batches) < BusyBatches
       /\ main_check_prices(BatchUser)
    \/ \E t \in TaskIds, r \in {BatchPrice, Fail} : main_check_prices_scrape(t, r, TRUE)
    \/ \E t \in TaskIds : main_check_prices_insert(t, clock, "ok")
    \/ \E t \in TaskIds :
          /\ lock \notin {0, tasks[t].batch}
          /\ main_check_prices_insert(t, clock, "raise")
    \/ \E b \in BatchIds : main_check_prices_commit(b)

SpecBusy == InitBatch /\ [][NextBusy]_vars

\* ----------------------------------------------------------- SpecSession
\* Logins, logouts and the checks started for the session: the store of
\* SpecBatch, nobody logged in at the start.
MaxLogins == 2        \* logins under SpecSession
SessionBatches == 1   \* batches started under SpecSession
LoggedOut == "You have been logged out successfully."

\* App.login with valid credentials -> show_main_app ->
\* start_scheduled_checks: schedule.every(12).hours.do(self.check_prices_now)
\* appends a job to the default scheduler of the schedule module and a new
\* run_schedule thread is started.  The check of start_scheduled_checks is
\* the first check_prices_now of the session.  The login page is shown at
\* the start and, in price_tracker_bot.py, after a logout.
login(u) ==
    /\ self_user_id = None
    /\ IsMain => jobs = 0
    /\ self_user_id' = u
    /\ jobs' = jobs + 1
    /\ run_schedule' = run_schedule + 1
    /\ UNCHANGED <<program, products, nextId, price_history, clock, batches, tasks,
                   adding, deleting, lock, pending, message, scraped>>

\* App.logout (price_tracker_bot.py; main.py has no logout): the session's
\* user is forgotten and the login page shown.  The job stays registered
\* and the run_schedule thread keeps looping.
logout ==
    /\ IsBot
    /\ self_user_id # None
    /\ self_user_id' = None
    /\ message' = LoggedOut
    /\ UNCHANGED <<program, products, nextId, price_history, clock, batches, tasks,
                   adding, deleting, lock, pending, jobs, run_schedule, scraped>>

\* check_prices_now, called by start_scheduled_checks, by the button or by
\* a registered job that run_pending finds due: the thread it starts calls
\* check_prices(self.user_id) with the user of that moment.
check_prices_now ==
    /\ jobs > 0
    /\ \/ check_prices(self_user_id)
       \/ main_check_prices(self_user_id)

NextSession ==
    \/ /\ jobs < MaxLogins
       /\ \E u \in Users : login(u)
    \/ logout
    \/ /\ Len(batches) < SessionBatches
       /\ check_prices_now
    \/ \E t \in TaskIds : worker_start(t)
    \/ \E t \in TaskIds, r \in {BatchPrice, Fail} : check_single_product_scrape(t, r, TRUE)
    \/ \E t \in TaskIds : check_single_product_persist(t, clock, "ok")
    \/ \E t \in TaskIds, r \in {BatchPrice, Fail} : main_check_prices_scrape(t, r, TRUE)
    \/ \E t \in TaskIds : main_check_prices_insert(t, clock, "ok")
    \/ \E b \in BatchIds : main_check_prices_commit(b)

SpecSession == InitBatch /\ [][NextSession]_vars

\* ------------------------------------------------------------ SpecScrape
\* One call of scrape_product(url), the same function in both programs, on
\* every url and every answer of the site.
OtherUrl == "example.com/d"           \* a url of no supported site
ScrapeUrls == Urls \cup {OtherUrl}

\* The if/elif chain on the url: the site rule that applies, "" for none.
site(url) ==
    CASE url = UrlList[1] -> "amazon"
      [] url = UrlList[2] -> "flipkart"
      [] url = UrlList[3] -> "myntra"
      [] OTHER -> ""

Missing == "<no node>"                \* select_one returned None
NameTexts == {"", ProductTitle}       \* text of the title node
PriceTexts == {"1", "2.00", "0", "Currently unavailable", ""}

\* What requests.get / raise_for_status do, and for a page that was served
\* the text of the nodes the selectors find.
Responses ==
    {[transport |-> x, name_elem |-> Missing, price_elem |-> Missing] :
        x \in {"ConnectionError", "Timeout", "HTTPError"}}
    \cup {[transport |-> "ok", name_elem |-> n, price_elem |-> p] :
            n \in NameTexts \cup {Missing}, p \in PriceTexts \cup {Missing}}

\* float(price_match.group(1)) for re.search(r'\$?(\d+\.?\d*)', price_text),
\* NA when the pattern finds nothing.
price_match(price_text) ==
    CASE price_text = "1" -> 1
      [] price_text = "2.00" -> 2
      [] price_text = "0" -> 0
      [] OTHER -> NA

\* The try block of scrape_product: it returns a pair or an exception
\* leaves it.
scrape_product_try(url, response) ==
    IF response.transport # "ok"
    THEN [pc |-> "raised", exception |-> "RequestException", name |-> None, price |-> NA]
    ELSE IF /\ site(url) # ""
            /\ response.name_elem # Missing
            /\ response.price_elem # Missing
            /\ price_match(response.price_elem) # NA
         THEN [pc |-> "returned", exception |-> "", name |-> response.name_elem,
               price |-> price_match(response.price_elem)]
         ELSE [pc |-> "returned", exception |-> "", name |-> None, price |-> NA]

\* Variant: scrape_product without its except clauses.
scrape_product_uncaught(url, response) == scrape_product_try(url, response)

\* scrape_product(url) with its two except clauses, which log and fall
\* through to the final return None, None.
scrape_product_call(url, response) ==
    LET r == scrape_product_try(url, response)
    IN IF r.pc = "raised" /\ r.exception \in {"RequestException", "Exception"}
       THEN [pc |-> "returned", exception |-> "", name |-> None, price |-> NA]
       ELSE r

InitScrape ==
    /\ program \in Programs
    /\ products = {}
    /\ nextId = 1
    /\ price_history = [p \in 1..MaxIds |-> <<>>]
    /\ clock = 0
    /\ batches = <<>>
    /\ tasks = <<>>
    /\ adding = <<>>
    /\ deleting = 0
    /\ lock = 0
    /\ pending = <<>>
    /\ message = ""
    /\ self_user_id = None
    /\ jobs = 0
    /\ run_schedule = 0
    /\ scraped \in {[url |-> u, response |-> r, pc |-> "called", exception |-> "",
                     name |-> None, price |-> NA] : u \in ScrapeUrls, r \in Responses}

\* The call runs to its end.
scrape_product_step ==
    /\ scraped # <<>>
    /\ scraped.pc = "called"
    /\ LET r == scrape_product_call(scraped.url, scraped.response)
       IN scraped' = [scraped EXCEPT !.pc = r.pc, !.exception = r.exception,
                                     !.name = r.name, !.price = r.price]
    /\ UNCHANGED <<program, products, nextId, price_history, clock, batches, tasks,
                   adding, deleting, lock, pending, message, self_user_id, jobs,
                   run_schedule>>

SpecScrape == InitScrape /\ [][scrape_product_step]_vars

\* ================================================================== claims
\* A check whose extraction succeeded and whose decision has been taken.
Decided(t) == tasks[t].current_price \notin {NA, Fail}

LowBreached(t) == tasks[t].current_price <= tasks[t].low_price
HighBreached(t) ==
    tasks[t].high_price > 0 /\ tasks[t].current_price >= tasks[t].high_price

\* C1: a check whose extracted price is <= low_price sends exactly
\* 'Price Drop Alert!', whatever the last price and high_price are.
C1_LowBreachSendsDropAlert ==
    \A t \in TaskIds :
        Decided(t) /\ LowBreached(t) => tasks[t].sent = <<DropAlert>>

\* The low threshold is breached while the high threshold is breached too
\* and the price rose over the last one.
C1_Witness ==
    \E t \in TaskIds :
        /\ Decided(t) /\ LowBreached(t) /\ HighBreached(t)
        /\ tasks[t].last_price # NA
        /\ tasks[t].current_price > tasks[t].last_price
        /\ tasks[t].sent = <<DropAlert>>

\* C2: a check with high_price > 0, price >= high_price and price >
\* low_price sends exactly 'Price Increase Alert!', whatever the last price.
C2_HighBreachSendsIncreaseAlert ==
    \A t \in TaskIds :
        Decided(t) /\ HighBreached(t) /\ ~LowBreached(t)
            => tasks[t].sent = <<IncreaseAlert>>

\* The high threshold is reached exactly, the price fell below the last one.
C2_Witness ==
    \E t \in TaskIds :
        /\ Decided(t) /\ HighBreached(t) /\ ~LowBreached(t)
        /\ tasks[t].current_price = tasks[t].high_price
        /\ tasks[t].last_price # NA
        /\ tasks[t].current_price < tasks[t].last_price
        /\ tasks[t].sent = <<IncreaseAlert>>

\* C3: with a last price and no threshold breached, a price below the last
\* one sends the plain 'Price Drop!' and a price above it the plain
\* 'Price Increase!'.
C3_PlainDelta ==
    \A t \in TaskIds :
        Decided(t) /\ tasks[t].last_price # NA /\ ~LowBreached(t) /\ ~HighBreached(t)
            => /\ tasks[t].current_price < tasks[t].last_price
                    => tasks[t].sent = <<Drop>>
               /\ tasks[t].current_price > tasks[t].last_price
                    => tasks[t].sent = <<Increase>>

\* Two checks with no threshold breached, one below and one above its last
\* price, one of them with a high threshold set.
C3_Witness ==
    \E t1, t2 \in TaskIds :
        /\ Decided(t1) /\ ~LowBreached(t1) /\ ~HighBreached(t1)
        /\ tasks[t1].last_price # NA
        /\ tasks[t1].current_price < tasks[t1].last_price
        /\ tasks[t1].sent = <<Drop>>
        /\ Decided(t2) /\ ~LowBreached(t2) /\ ~HighBreached(t2)
        /\ tasks[t2].last_price # NA
        /\ tasks[t2].current_price > tasks[t2].last_price
        /\ tasks[t2].sent = <<Increase>>

\* C4: a check sends at most one notification; when both thresholds are
\* breached at once it is the 'Price Drop Alert!', and a threshold alert
\* comes with no plain delta notification.
C4_AtMostOneNotification ==
    \A t \in TaskIds :
        /\ Len(tasks[t].sent) <= 1
        /\ Decided(t) /\ LowBreached(t) /\ HighBreached(t)
              => tasks[t].sent = <<DropAlert>>
        /\ (\E i \in DOMAIN tasks[t].sent : tasks[t].sent[i] \in {DropAlert, IncreaseAlert})
              => \A i \in DOMAIN tasks[t].sent : tasks[t].sent[i] \notin {Drop, Increase}

\* Both thresholds breached, and a threshold alert on a price that also
\* differs from the last one.
C4_Witness ==
    /\ \E t \in TaskIds :
          Decided(t) /\ LowBreached(t) /\ HighBreached(t) /\ Len(tasks[t].sent) = 1
    /\ \E t \in TaskIds :
          /\ Decided(t) /\ HighBreached(t) /\ ~LowBreached(t)
          /\ tasks[t].last_price # NA
          /\ tasks[t].current_price # tasks[t].last_price
          /\ Len(tasks[t].sent) = 1

\* C5: no threshold breached and the price equal to the last one, or no
\* prior observation: no notification.
C5_NoEvent ==
    \A t \in TaskIds :
        /\ Decided(t) /\ ~LowBreached(t) /\ ~HighBreached(t)
        /\ tasks[t].last_price = NA \/ tasks[t].current_price = tasks[t].last_price
        => tasks[t].sent = <<>>

\* One check of a product without prior observation and one whose price
\* equals the last one, no threshold breached.
C5_Witness ==
    \E t1, t2 \in TaskIds :
        /\ Decided(t1) /\ ~LowBreached(t1) /\ ~HighBreached(t1)
        /\ tasks[t1].last_price = NA
        /\ tasks[t1].sent = <<>>
        /\ Decided(t2) /\ ~LowBreached(t2) /\ ~HighBreached(t2)
        /\ tasks[t2].current_price = tasks[t2].last_price
        /\ tasks[t2].sent = <<>>

\* Rows of a product in the store, the uncommitted ones of the lock holder
\* included.
AllRows(p) == price_history[p] \o RowsOf(pending, p)

\* Checks of product p that have finished after a successful extraction.
Observed(p) ==
    {t \in TaskIds : tasks[t].id = p /\ tasks[t].pc = "done" /\ Decided(t)}

\* Rows written for product p by add_product.
AddRows(p) ==
    IF p < nextId /\ ~(adding # <<>> /\ adding[1] = p) THEN 1 ELSE 0

CountPrice(rows, v) == Cardinality({i \in DOMAIN rows : rows[i].price = v})

\* C6: every check whose extraction succeeded appends exactly one
\* observation carrying the extracted price to its product's history,
\* whichever decision branch was taken.
C6_OneObservationPerCheck ==
    /\ \A t \in TaskIds :
          tasks[t].appended = IF tasks[t].pc = "done" /\ Decided(t) THEN 1 ELSE 0
    /\ \A p \in 1..MaxIds :
          /\ Len(AllRows(p)) = AddRows(p) + Cardinality(Observed(p))
          /\ \A v \in Prices :
                CountPrice(AllRows(p), v)
                    >= Cardinality({t \in Observed(p) : tasks[t].current_price = v})

\* Two finished checks of one product, one that sent nothing and one that
\* sent a threshold alert, and the product's three rows.
C6_Witness ==
    \E t1, t2 \in TaskIds :
        /\ tasks[t1].id = tasks[t2].id
        /\ tasks[t1].pc = "done" /\ Decided(t1) /\ tasks[t1].sent = <<>>
        /\ tasks[t2].pc = "done" /\ Decided(t2)
        /\ tasks[t2].sent \in {<<DropAlert>>, <<IncreaseAlert>>}
        /\ tasks[t1].current_price # tasks[t2].current_price
        /\ Len(AllRows(tasks[t1].id)) = 3

\* A batch all of whose per-product work is over: in main.py the loop has
\* ended and the rows are committed, in price_tracker_bot.py every task of
\* the batch has returned.
BatchDone(b) ==
    /\ \A t \in TasksOf(b) : tasks[t].pc = "done"
    /\ IsMain => batches[b].pc = "returned"

FailedIn(b) == {t \in TasksOf(b) : tasks[t].current_price = Fail}

RECURSIVE TotalRows(_)
TotalRows(n) == IF n = 0 THEN 0 ELSE Len(AllRows(n)) + TotalRows(n - 1)

\* C7: in a batch over N products where one extraction fails, the other
\* N-1 products are still checked and exactly N-1 observations are
\* appended, wherever the failing product sits.
C7_FailureDoesNotStopBatch ==
    /\ \A b \in BatchIds :
          BatchDone(b) /\ Cardinality(FailedIn(b)) = 1
              => /\ Cardinality(TasksOf(b)) = Cardinality(products)
                 /\ \A t \in TasksOf(b) \ FailedIn(b) :
                       Decided(t) /\ tasks[t].appended = 1
                 /\ Cardinality({t \in TasksOf(b) : tasks[t].appended = 1})
                       = Cardinality(products) - 1
    /\ TotalRows(MaxIds)
          = Cardinality(products) + Cardinality({t \in TaskIds : tasks[t].appended = 1})

\* Two finished batches, the first product failing in one and the last
\* product in the other.
C7_Witness ==
    \E b1, b2 \in BatchIds :
        /\ BatchDone(b1) /\ BatchDone(b2)
        /\ Cardinality(TasksOf(b1)) = 3
        /\ \E t \in TasksOf(b1) :
              FailedIn(b1) = {t} /\ \A s \in TasksOf(b1) : t <= s
        /\ \E t \in TasksOf(b2) :
              FailedIn(b2) = {t} /\ \A s \in TasksOf(b2) : s <= t
        /\ TotalRows(MaxIds) = 7

\* C8: check_prices returns to its caller only after every per-product
\* task of the batch has finished, so that the caller's load_products reads
\* the observations of the whole batch.
C8_ReturnsAfterAllTasks ==
    \A b \in BatchIds :
        batches[b].pc = "returned"
            => \A t \in TasksOf(b) : tasks[t].pc = "done"

\* What the store holds for the product of check t when t decides, as its
\* program reads it.
HistoryAtDecision(t) ==
    IF IsMain THEN Visible(tasks[t].batch, tasks[t].id) ELSE price_history[tasks[t].id]

\* The step in which check t gets its scraped price and runs the chain.
DecisionStep(t) ==
    /\ tasks[t].current_price = NA
    /\ tasks'[t].current_price \notin {NA, Fail}

\* C9: whenever a check compares the new price with a last price, that
\* last price is the price of the most recent observation in the product's
\* history at the moment of the decision.  Rows that share the greatest
\* timestamp all count as the most recent one here.
C9_LastPriceIsMostRecent ==
    [][\A t \in TaskIds :
          /\ DecisionStep(t)
          /\ tasks'[t].last_price # NA
          /\ tasks'[t].current_price > tasks'[t].low_price
          /\ ~(tasks'[t].high_price > 0 /\ tasks'[t].current_price >= tasks'[t].high_price)
          => tasks'[t].last_price \in latest_price(HistoryAtDecision(t))]_vars

Deleted ==
    {p \in 1..MaxIds :
        /\ p < nextId
        /\ ~(adding # <<>> /\ adding[1] = p)
        /\ \A q \in products : q.id # p
        /\ deleting # p}

\* C11: once the deletion of a product has completed, the history store
\* holds no observation for that product id, also when a batch that loaded
\* the product before the deletion is still running.
C11_DeletedProductHasNoHistory ==
    \A p \in Deleted : price_history[p] = <<>>

\* C12: after observations p1..pn have been appended to a product's
\* history one after another, the latest-price query returns pn, however
\* close in time the appends are.
C12_LatestIsLastAppended ==
    \A p \in 1..MaxIds :
        price_history[p] # <<>>
            => latest_price(price_history[p])
                  = {price_history[p][Len(price_history[p])].price}

\* A check that is over, by a return or by an exception.
Ended(t) == tasks[t].pc \in {"done", "raised"}

\* C13: a check whose notification could not be delivered still appends
\* its observation, no check and no batch ends by an exception, and the
\* other products of the batch are checked and recorded as well.
C13_NotifierFailureKeepsHistoryWrite ==
    /\ \A t \in TaskIds :
          /\ tasks[t].pc # "raised"
          /\ Ended(t) /\ Decided(t) => tasks[t].appended = 1
          /\ NotifyFailed \in tasks[t].logged => tasks[t].sent # <<>>
    /\ \A b \in BatchIds : batches[b].pc # "raised"
    /\ TotalRows(MaxIds)
          = Cardinality(products) + Cardinality({t \in TaskIds : tasks[t].appended = 1})

\* A finished batch of three products: the notification of the second one
\* failed, all three observations are in the committed history.
C13_Witness ==
    \E b \in BatchIds :
        /\ BatchDone(b)
        /\ Cardinality(TasksOf(b)) = 3
        /\ \E t \in TasksOf(b) :
              /\ NotifyFailed \in tasks[t].logged
              /\ \E s1, s2 \in TasksOf(b) : s1 < t /\ t < s2
        /\ \A t \in TasksOf(b) : tasks[t].appended = 1
        /\ \A p \in 1..3 : Len(price_history[p]) = 2

\* A batch that is over: check_prices has returned or raised (main.py),
\* every task has ended (price_tracker_bot.py).
BatchOver(b) ==
    IF IsMain THEN batches[b].pc \in {"returned", "raised"}
    ELSE \A t \in TasksOf(b) : Ended(t)

\* Checks whose history append failed.
AppendFailed(b) ==
    {t \in TasksOf(b) : Ended(t) /\ Decided(t) /\ tasks[t].appended = 0}

\* C14: when the history append of one product of a batch fails, the
\* failure is logged, the remaining products of the batch are still
\* processed, and the observations of the other products are in the
\* committed history.
C14_AppendFailureIsContained ==
    \A b \in BatchIds :
        BatchOver(b) /\ Cardinality(AppendFailed(b)) = 1
            => /\ \A t \in AppendFailed(b) : tasks[t].logged \ {NotifyFailed} # {}
               /\ \A t \in TasksOf(b) : Ended(t)
               /\ \A t \in TasksOf(b) :
                     Decided(t) /\ tasks[t].appended = 1
                         => \E i \in DOMAIN price_history[tasks[t].id] :
                               /\ i > 1
                               /\ price_history[tasks[t].id][i].price
                                     = tasks[t].current_price

\* C15: every started batch eventually returns control to its caller with
\* every one of its checks over, whatever the sites, the notifier and the
\* store answer.
C15_BatchAlwaysReturns ==
    \A b \in 1..FaultBatches :
        (b \in BatchIds)
            ~> (/\ b \in BatchIds
                /\ batches[b].pc = "returned"
                /\ \A t \in TasksOf(b) : Ended(t))

\* C16: every price scrape_product returns on success is > 0, so every
\* observation in the history has a price > 0.
C16_ObservedPricesArePositive ==
    /\ \A t \in TaskIds : Decided(t) => tasks[t].current_price > 0
    /\ \A p \in 1..MaxIds :
          \A i \in DOMAIN AllRows(p) : AllRows(p)[i].price > 0

\* C17: every stored product has low_price > 0, add_product and
\* update_prices having rejected every other low price.
C17_LowPriceIsPositive ==
    \A p \in products : p.low_price > 0

\* No two stored products of one user share a url, and the rows of the
\* history belong to products the store has created.
UniqueUrlPerUser ==
    /\ \A p, q \in products :
          (p.user_id = q.user_id /\ p.url = q.url) \/ p.id = q.id => p = q
    /\ \A p \in products : p.id < nextId
    /\ \A id \in 1..MaxIds : Len(AllRows(id)) <= (IF id < nextId THEN 1 ELSE 0)

\* C18: no two products of the same user have the same url, and an
\* add_product answered 'This URL is already being tracked.' has created
\* neither a product nor a history observation.
C18_UrlUniquePerUser ==
    /\ []UniqueUrlPerUser
    /\ [][message' = AlreadyTracked /\ message # AlreadyTracked
            => UNCHANGED <<products, nextId, price_history, pending, adding>>]_vars

\* The user who tracks one product has just been refused the same url.
C18_Witness ==
    /\ message = AlreadyTracked
    /\ adding = <<>>
    /\ \E p \in products :
          /\ products = {p}
          /\ Len(price_history[p.id]) = 1
    /\ nextId = 2

\* A check whose extraction failed has sent and appended nothing.
SkippedCheckDidNothing ==
    \A t \in TaskIds :
        tasks[t].current_price = Fail
            => /\ tasks[t].sent = <<>>
               /\ tasks[t].logged = {}
               /\ tasks[t].appended = 0

\* C19: a check whose extraction failed sends no notification and appends
\* no observation, and the step in which it fails leaves the products and
\* the history as they are.
C19_FailedExtractionChangesNothing ==
    /\ []SkippedCheckDidNothing
    /\ [][\A t \in TaskIds :
            tasks[t].current_price = NA /\ tasks'[t].current_price = Fail
                => UNCHANGED <<products, price_history, pending>>]_vars

\* A finished batch whose check failed: the product still has the one
\* observation it had.
C19_Witness ==
    \E t \in TaskIds :
        /\ tasks[t].current_price = Fail
        /\ BatchDone(tasks[t].batch)
        /\ \E p \in products : p.id = tasks[t].id
        /\ Len(AllRows(tasks[t].id)) = 1

\* C20: within one check the notification is sent after the fetch has
\* returned a price and before the observation is appended: the step that
\* notifies finds and leaves the check without an appended row and with
\* its scraped price, the step that appends finds the decision taken and
\* sends nothing, and the append is the last thing the check does.
C20_FetchDecideNotifyPersist ==
    /\ [](\A t \in TaskIds : tasks[t].appended = 1 => tasks[t].pc = "done")
    /\ [][\A t \in TaskIds :
            /\ tasks'[t].sent # tasks[t].sent
                  => /\ tasks[t].current_price = NA
                     /\ tasks'[t].current_price \notin {NA, Fail}
                     /\ tasks[t].appended = 0 /\ tasks'[t].appended = 0
            /\ tasks'[t].appended # tasks[t].appended
                  => /\ Decided(t)
                     /\ tasks'[t].current_price = tasks[t].current_price
                     /\ tasks'[t].sent = tasks[t].sent
                     /\ tasks'[t].appended = 1]_vars

\* A finished check that was notified and then recorded.
C20_Witness ==
    \E t \in TaskIds :
        /\ tasks[t].pc = "done"
        /\ tasks[t].sent # <<>>
        /\ tasks[t].appended = 1
        /\ \E i \in DOMAIN AllRows(tasks[t].id) :
              i > 1 /\ AllRows(tasks[t].id)[i].price = tasks[t].current_price

IsPrefix(a, b) == Len(a) <= Len(b) /\ SubSeq(b, 1, Len(a)) = a

\* The step removes the history of product p: the second write of
\* delete_product_from_db, or remove_selected of main.py.
Removing(p) ==
    \/ deleting = p /\ deleting' = 0
    \/ IsMain /\ (\E q \in products : q.id = p) /\ ~(\E q \in products' : q.id = p)

\* C21: the history is append-only.  Every step other than the deletion of
\* the product keeps the rows of every product, in order, and at most adds
\* rows behind them; and every check that records a price adds one row
\* carrying it, also when the row before carries the same price.
C21_HistoryIsAppendOnly ==
    /\ [][\A p \in 1..MaxIds :
            \/ Removing(p)
            \/ /\ IsPrefix(price_history[p], price_history'[p])
               /\ IsPrefix(price_history[p] \o RowsOf(pending, p),
                           price_history'[p] \o RowsOf(pending', p))]_vars
    /\ [][\A t \in TaskIds :
            tasks'[t].appended # tasks[t].appended
                => LET before == price_history[tasks[t].id] \o RowsOf(pending, tasks[t].id)
                       after == price_history'[tasks[t].id] \o RowsOf(pending', tasks[t].id)
                   IN /\ Len(after) = Len(before) + 1
                      /\ after[Len(after)].price = tasks[t].current_price]_vars

\* Two checks of one product, in two batches, have recorded the same price
\* after the product's thresholds were updated: the product has the row of
\* its creation and two equal rows behind it.
C21_Witness ==
    \E t1, t2 \in TaskIds :
        /\ tasks[t1].batch # tasks[t2].batch
        /\ tasks[t1].id = tasks[t2].id
        /\ tasks[t1].appended = 1 /\ tasks[t2].appended = 1
        /\ tasks[t1].current_price = tasks[t2].current_price
        /\ \E p \in products : p.id = tasks[t1].id /\ p.low_price = 2 /\ p.high_price = 3
        /\ Len(price_history[tasks[t1].id]) = 3
        /\ price_history[tasks[t1].id][2] = price_history[tasks[t1].id][3]

\* The fetch outcomes that are failures: transport error, timeout,
\* non-success status, unknown domain, missing name or price node,
\* unparsable numeral.
FetchFailed ==
    \/ scraped.response.transport \in {"ConnectionError", "Timeout", "HTTPError"}
    \/ scraped.url \notin Urls
    \/ scraped.response.name_elem = Missing
    \/ scraped.response.price_elem = Missing
    \/ scraped.response.price_elem \in {"Currently unavailable", ""}

\* C22: scrape_product never raises to its caller; on every failed fetch
\* it returns (None, None); its result is (None, None) or a pair with both
\* the name and the price set.
C22_ScrapeNeverRaises ==
    scraped # <<>> /\ scraped.pc # "called"
        => /\ scraped.pc = "returned"
           /\ FetchFailed => scraped.name = None /\ scraped.price = NA
           /\ scraped.name = None <=> scraped.price = NA

\* The call has returned (None, None) although requests.get timed out.
C22_Witness ==
    /\ scraped # <<>>
    /\ scraped.pc = "returned"
    /\ scraped.response.transport = "Timeout"
    /\ scraped.name = None /\ scraped.price = NA

\* C23: within one batch each product of the user is fetched exactly once.
\* A batch has one check per product of the user and no two checks of one
\* product; the result of a check's fetch, failure included, is never
\* replaced by another; and a finished batch has fetched for every check.
C23_EachProductFetchedOnce ==
    /\ [](\A b \in BatchIds :
            /\ {tasks[t].id : t \in TasksOf(b)}
                  = {p.id : p \in {q \in products : q.user_id = batches[b].user_id}}
            /\ \A t1, t2 \in TasksOf(b) : tasks[t1].id = tasks[t2].id => t1 = t2
            /\ BatchDone(b) => \A t \in TasksOf(b) : tasks[t].current_price # NA)
    /\ [][\A t \in TaskIds :
            tasks[t].current_price # NA
                => tasks'[t].current_price = tasks[t].current_price]_vars

\* A finished batch over three products whose second fetch failed: the
\* failed check is over, without a price, and the other two have theirs.
C23_Witness ==
    \E b \in BatchIds :
        /\ BatchDone(b)
        /\ Cardinality(TasksOf(b)) = 3
        /\ \E t \in TasksOf(b) :
              /\ tasks[t].current_price = Fail
              /\ \E s1, s2 \in TasksOf(b) :
                    /\ s1 < t /\ t < s2
                    /\ Decided(s1) /\ Decided(s2)

\* C24: a check of a product whose high_price is 0 never sends 'Price
\* Increase Alert!', whatever the new and the last price are; a rise above
\* the last price sends only the plain 'Price Increase!'.
C24_NoHighThresholdNoIncreaseAlert ==
    \A t \in TaskIds :
        Decided(t) /\ tasks[t].high_price = 0
            => /\ \A i \in DOMAIN tasks[t].sent : tasks[t].sent[i] # IncreaseAlert
               /\ (/\ ~LowBreached(t)
                   /\ tasks[t].last_price # NA
                   /\ tasks[t].current_price > tasks[t].last_price)
                     => tasks[t].sent = <<Increase>>

\* A product without high threshold whose price rose from 2 to 3 above its
\* low price: the check sent the plain 'Price Increase!'.
C24_Witness ==
    \E t \in TaskIds :
        /\ tasks[t].high_price = 0
        /\ tasks[t].last_price = 2
        /\ tasks[t].current_price = 3
        /\ tasks[t].sent = <<Increase>>

\* A step of a batch: check_prices starts, or one of its checks moves.
BatchStep == tasks' # tasks \/ batches' # batches

\* C25: a batch never changes the product store.  Every step of a batch
\* leaves the set of products and each product's name, url, low_price and
\* high_price as they are, and at most adds rows to the history.
C25_BatchLeavesProductsAlone ==
    [][BatchStep
          => /\ UNCHANGED <<products, nextId>>
             /\ \A p \in 1..MaxIds : IsPrefix(price_history[p], price_history'[p])]_vars

\* A finished batch has recorded a price for a product that still has the
\* name and the thresholds it was created with.
C25_Witness ==
    \E b \in BatchIds :
        /\ BatchDone(b)
        /\ \E t \in TasksOf(b) :
              /\ tasks[t].appended = 1
              /\ Len(price_history[tasks[t].id]) = 2
              /\ \E p \in products :
                    /\ p.id = tasks[t].id
                    /\ p.name = ProductTitle
                    /\ p.low_price = 1 /\ p.high_price = 0

\* C26: a batch started while another batch of the user is in flight runs
\* like any other: no batch ends by an exception, every batch has a check
\* for every product of the user, and a batch that is over has every
\* successfully extracted price in the committed history.
C26_OverlappingBatchesBothComplete ==
    \A b \in BatchIds :
        /\ batches[b].pc # "raised"
        /\ Cardinality(TasksOf(b)) = Cardinality(products)
        /\ BatchOver(b)
              => \A t \in TasksOf(b) :
                    /\ Ended(t)
                    /\ Decided(t)
                          => /\ tasks[t].appended = 1
                             /\ \E i \in DOMAIN price_history[tasks[t].id] :
                                   /\ i > 1
                                   /\ price_history[tasks[t].id][i].price
                                         = tasks[t].current_price

\* C27: a product never exists in the store without at least one
\* observation, the first one carrying the price scraped at creation, so
\* every check of a product has a last observed price to compare with.
C27_ProductHasFirstObservation ==
    /\ \A p \in products : AllRows(p.id) # <<>>
    /\ \A t \in TaskIds : Decided(t) => tasks[t].last_price # NA

\* User u does not track the url and another user does.
TrackedByAnotherOnly(u, url) ==
    /\ \E p \in products : p.url = url /\ p.user_id # u
    /\ ~(\E p \in products : p.url = url /\ p.user_id = u)

\* C28: url uniqueness is scoped to the owning user.  When another user
\* already tracks a url, add_product of that url by user u, with a valid
\* low price and a page that scrapes, creates u's own product.
C28_UrlScopedToUser ==
    [][\A u \in Users, url \in Urls :
          /\ TrackedByAnotherOnly(u, url)
          /\ App_add_product(u, url, "1", "",
                             [fetched |-> TRUE, name |-> TRUE, numeral |-> 1], clock)
          => \E p \in products' : p.user_id = u /\ p.url = url /\ p.id = nextId]_vars

\* C29: update_prices with only one of the two threshold entries filled
\* in sets that threshold to the entered value and leaves the other one as
\* it is, for every selected product, one without high threshold included.
C29_UpdateOneThreshold ==
    [][\A p \in products :
          /\ \A low \in {"1", "2"} :
                Selectable(p.id) /\ update_prices(p.id, low, "")
                    => products' = (products \ {p})
                                      \cup {[p EXCEPT !.low_price = float(low)]}
          /\ \A high \in {"3"} :
                Selectable(p.id) /\ update_prices(p.id, "", high)
                    => products' = (products \ {p})
                                      \cup {[p EXCEPT !.high_price = float(high)]}]_vars

\* C30: after any sequence of logins and logouts at most one periodic job
\* and at most one scheduler loop are registered, so that a scheduler tick
\* finds at most one job due and starts at most one batch.
C30_OneJobOneLoop ==
    jobs <= 1 /\ run_schedule <= 1

====
